---- MODULE Spec2Model ----
(***************************************************************************)
(* Lead suggestion ranking, follow-up scheduling and agenda view of the    *)
(* CRM backend (src/main.py).  The relational tables are the state; every  *)
(* HTTP handler is one action.  Nullable SQL / Python values are sequences *)
(* of length 0 (NULL / None) or 1.  Text values whose characters matter    *)
(* are sequences of one-character strings.  Dates are day numbers.         *)
(***************************************************************************)
EXTENDS Integers, Sequences, FiniteSets, TLC

VARIABLES firms, activities, suggested_top, suggested_by_caen, today, resp,
          contacted, completedEver, lastFull, tx, db_up, boot, activity_types

vars == <<firms, activities, suggested_top, suggested_by_caen, today, resp,
          contacted, completedEver, lastFull, tx, db_up, boot, activity_types>>

\* ---------------------------------------------------------------- bounds
MaxActivities == 2
MaxLimit == 2
MaxN == 2
MaxDayOffset == 1

\* ------------------------------------------------------ program constants
DefaultLimit == 20
AgendaTake == 5
NearbyDays == 7
ScheduledLimit == 500
OverdueLimit == 200
NearbyLimit == 500
SuggestedNextMax == 20

\* ------------------------------------------------------- nullable values
Null == <<>>

Some(v) == <<v>>

Coalesce(x, d) == IF x = <<>> THEN d ELSE x[1]

Min(a, b) == IF a <= b THEN a ELSE b

\* ------------------------------------------------------------------ text
LowerChar(c) ==
    CASE c = "A" -> "a" [] c = "B" -> "b" [] c = "C" -> "c" [] c = "D" -> "d"
      [] c = "E" -> "e" [] c = "F" -> "f" [] c = "G" -> "g" [] c = "H" -> "h"
      [] c = "I" -> "i" [] c = "J" -> "j" [] c = "K" -> "k" [] c = "L" -> "l"
      [] c = "M" -> "m" [] c = "N" -> "n" [] c = "O" -> "o" [] c = "P" -> "p"
      [] c = "Q" -> "q" [] c = "R" -> "r" [] c = "S" -> "s" [] c = "T" -> "t"
      [] c = "U" -> "u" [] c = "V" -> "v" [] c = "W" -> "w" [] c = "X" -> "x"
      [] c = "Y" -> "y" [] c = "Z" -> "z" [] OTHER -> c

\* the comparison without lower()
lowerOmitted(s) == s

lower(s) == [i \in 1..Len(s) |-> LowerChar(s[i])]

Contains(s, pat) ==
    \E i \in 1..(Len(s) - Len(pat) + 1) : SubSeq(s, i, i + Len(pat) - 1) = pat

ExcludedPattern == <<"c", "o", "n", "s", "t", "a", "n">>

\* WHERE ... lower(COALESCE(f.judet, '')) NOT LIKE '%constan%'
JudetAllowed(judet) == ~Contains(lower(Coalesce(judet, <<>>)), ExcludedPattern)

\* ----------------------------------------------------------- firms table
VarCuis == {1, 2}

\* cui of the i-th further firm
FillCui(i) == 100 + i

ConstantaUpper == Some(<<"C", "O", "N", "S", "T", "A", "N", "T", "A">>)

Judete ==
    { Null,
      Some(<<>>),
      Some(<<"G", "a", "l", "a", "t", "i">>),
      ConstantaUpper,
      Some(<<"J", "u", "d", " ", "C", "o", "n", "s", "t", "a", "n", "t", "a">>),
      Some(<<"C", "o", "n", "s", "t", "a">>) }

FirmRows == [lic : {Null, Some(1)}, cifra : {Null, Some(1)}, judet : Judete]

FillRow(i) == [lic |-> Null, cifra |-> Some(i + 1),
               judet |-> Some(<<"B", "r", "a", "i", "l", "a">>)]

\* the caen column: every second further firm has a code outside relevant_caen
CaenOf(c) == IF c > FillCui(0) /\ c % 2 = 0 THEN "0111" ELSE "4120"

WithCaen(r, c) ==
    [lic |-> r.lic, cifra |-> r.cifra, judet |-> r.judet, caen |-> CaenOf(c)]

FirmTable(r1, r2, n) ==
    [c \in VarCuis \cup ({FillCui(i) : i \in 1..n}) |->
        WithCaen(IF c = 1 THEN r1 ELSE IF c = 2 THEN r2 ELSE FillRow(c - FillCui(0)), c)]

\* firm 1 takes every row, firm 2 every pair of sort keys
PlainRows == [lic : {Null, Some(1)}, cifra : {Null, Some(1)}, judet : {Null}]

FirmTables == {FirmTable(r1, r2, 1) : r1 \in FirmRows, r2 \in PlainRows}

\* ------------------------------------------------------ rebuild_top20 SQL
\* COALESCE(l.lic_count, 0)
LicCount(f, c) == Coalesce(f[c].lic, 0)

\* COALESCE(NULLIF(trim(ca::text), ''), '0')::numeric
CifraVal(f, c) == Coalesce(f[c].cifra, 0)

\* looks at the most recent activity row only
NoActivityLatestOnly(acts, c) == Len(acts) = 0 \/ acts[Len(acts)].cui # c

\* NOT EXISTS (SELECT 1 FROM activities a WHERE a.cui::text = f.cui::text)
NoActivity(acts, c) == \A i \in 1..Len(acts) : acts[i].cui # c

\* the candidate filter without its NOT EXISTS clause
EligibleIgnoringActivities(f, acts) == {c \in DOMAIN f : JudetAllowed(f[c].judet)}

Eligible(f, acts) ==
    {c \in DOMAIN f : NoActivity(acts, c) /\ JudetAllowed(f[c].judet)}

\* the two sort keys in the opposite order
BeforeRevenueFirst(f, a, b) ==
    \/ CifraVal(f, a) > CifraVal(f, b)
    \/ CifraVal(f, a) = CifraVal(f, b) /\ LicCount(f, a) > LicCount(f, b)

\* ORDER BY cf.lic_count DESC, cf.cifra_val DESC : a sorts strictly before b
Before(f, a, b) ==
    \/ LicCount(f, a) > LicCount(f, b)
    \/ LicCount(f, a) = LicCount(f, b) /\ CifraVal(f, a) > CifraVal(f, b)

\* all orders of a set of rows that are equal on both sort keys
RECURSIVE Perms(_)
Perms(G) ==
    IF G = {} THEN {<<>>}
    ELSE UNION { { <<m>> \o t : t \in Perms(G \ {m}) } : m \in G }

\* P pairs every row x with the number of rows that sort strictly before
\* it; x and the rows equal to it on both keys fill the positions after those
RECURSIVE OrderedFrom(_, _)
OrderedFrom(P, k) ==
    IF k >= Cardinality(P) THEN {<<>>}
    ELSE LET G == {p[1] : p \in {q \in P : q[2] = k}}
         IN  UNION { { g \o t : t \in OrderedFrom(P, k + Cardinality(G)) } :
                     g \in Perms(G) }

\* every order of S the ORDER BY allows (rows equal on both keys come in
\* whatever order the executor produces them)
OrderedSeqs(f, S) ==
    OrderedFrom({<<x, Cardinality({y \in S : Before(f, y, x)})>> : x \in S}, 0)

\* the rows the candidate query returns under LIMIT :limit
CandidateRows(f, acts, limit) ==
    { SubSeq(s, 1, Min(limit, Len(s))) : s \in OrderedSeqs(f, Eligible(f, acts)) }

\* TRUNCATE + the INSERT loop: rank counts from 1, used = false
InsertedRow(f, rows, i) ==
    [rank |-> i, cui |-> rows[i], licente |-> LicCount(f, rows[i]),
     cifra_afaceri |-> CifraVal(f, rows[i]), used |-> FALSE]

InsertedRows(f, rows) == [i \in 1..Len(rows) |-> InsertedRow(f, rows, i)]

\* the tables rebuild_top20(limit) can leave behind
RebuildResults(f, acts, limit) ==
    { InsertedRows(f, rows) : rows \in CandidateRows(f, acts, limit) }

CuiSeq(top) == [i \in 1..Len(top) |-> top[i].cui]

CuiSet(top) == {top[i].cui : i \in 1..Len(top)}

\* ------------------------------------------------- rebuild_top20_caen SQL
relevant_caen == {"4120"}

RECURSIVE TrimLeft(_)
TrimLeft(s) == IF Len(s) > 0 /\ s[1] = " " THEN TrimLeft(Tail(s)) ELSE s

RECURSIVE TrimRight(_)
TrimRight(s) ==
    IF Len(s) > 0 /\ s[Len(s)] = " " THEN TrimRight(SubSeq(s, 1, Len(s) - 1)) ELSE s

trim(s) == TrimRight(TrimLeft(s))

\* target_judete, without the spellings that carry diacritics
target_judete ==
    { <<"g", "a", "l", "a", "t", "i">>, <<"b", "r", "a", "i", "l", "a">>,
      <<"t", "u", "l", "c", "e", "a">>, <<"v", "a", "s", "l", "u", "i">>,
      <<"v", "r", "a", "n", "c", "e", "a">>,
      <<"i", "a", "l", "o", "m", "i", "t", "a">> }

\* COALESCE(lower(trim(f.judet::text)), '')
JudetNorm(judet) == IF judet = Null THEN <<>> ELSE lower(trim(judet[1]))

\* raw_candidates without the filter on judet_norm
CaenEligibleAnyCounty(f, acts) ==
    {c \in DOMAIN f : f[c].caen \in relevant_caen /\ NoActivity(acts, c)}

\* raw_candidates filtered by judet_norm IN (...)
CaenEligible(f, acts) ==
    {c \in DOMAIN f : /\ f[c].caen \in relevant_caen
                      /\ NoActivity(acts, c)
                      /\ JudetNorm(f[c].judet) \in target_judete}

\* ORDER BY cifra_val DESC LIMIT :limit ; rows of equal revenue in any order
CaenCandidateRows(f, acts, limit) ==
    LET S == CaenEligible(f, acts)
        P == {<<x, Cardinality({y \in S : CifraVal(f, y) > CifraVal(f, x)})>> : x \in S}
    IN  { SubSeq(s, 1, Min(limit, Len(s))) : s \in OrderedFrom(P, 0) }

\* TRUNCATE + the INSERT loop of rebuild_top20_caen
CaenInsertedRows(f, rows) ==
    [i \in 1..Len(rows) |->
        [rank |-> i, cui |-> rows[i], caen |-> f[rows[i]].caen,
         cifra_de_afaceri |-> CifraVal(f, rows[i])]]

\* the table rebuild_top20_caen leaves and the {"inserted": len(seen)} it
\* returns, seen being the cuis the INSERT loop went through
rebuild_top20_caen(f, acts, limit) ==
    { [table |-> CaenInsertedRows(f, rows),
       inserted |-> Cardinality({rows[i] : i \in 1..Len(rows)})] :
         rows \in CaenCandidateRows(f, acts, limit) }

CaenRebuildResults(f, acts, limit) ==
    { r.table : r \in rebuild_top20_caen(f, acts, limit) }

\* ------------------------------------------------- take_next_suggestions
\* rows of top in rank order (ORDER BY rank)
ByRank(top) ==
    LET P == {<<i, Cardinality({j \in 1..Len(top) :
                      \/ top[j].rank < top[i].rank
                      \/ top[j].rank = top[i].rank /\ j < i})>> : i \in 1..Len(top)}
    IN  [k \in 1..Len(top) |-> top[(CHOOSE p \in P : p[2] = k - 1)[1]]]

\* the SELECT without "WHERE used = false"
UnusedFilterOmitted(row) == TRUE

UnusedFilter(row) == row.used = FALSE

TakeLimit(s, n) == SubSeq(s, 1, Min(n, Len(s)))

\* SELECT ... FROM suggested_top WHERE used = false ORDER BY rank LIMIT :n
take_next_suggestions(top, n) ==
    CuiSeq(TakeLimit(SelectSeq(ByRank(top), UnusedFilter), n))

\* a DELETE of the rows in place of the UPDATE
MarkUsedRowsDeleted(top, cuis) ==
    SelectSeq(top, LAMBDA r : r.cui \notin cuis)

\* UPDATE suggested_top SET used = true WHERE cui = ANY(:arr)
MarkUsedRows(top, cuis) ==
    [i \in 1..Len(top) |->
        IF top[i].cui \in cuis THEN [top[i] EXCEPT !.used = TRUE] ELSE top[i]]

\* ------------------------------------------------ reprogram_options table
\* "1 an si jumatate" entered as 547 days
ReprogramDaysShortYear ==
    <<1, 2, 3, 4, 5, 7, 14, 21, 30, 60, 90, 180, 270, 365, 547, 730, 1095, 1460, 1825>>

ReprogramDays ==
    <<1, 2, 3, 4, 5, 7, 14, 21, 30, 60, 90, 180, 270, 365, 548, 730, 1095, 1460, 1825>>

\* rows get serial ids 1..20 in list order; the last one, "Nu programa", has days NULL
reprogram_options ==
    [i \in 1..(Len(ReprogramDays) + 1) |->
        IF i <= Len(ReprogramDays) THEN Some(ReprogramDays[i]) ELSE Null]

\* an id that matches no row falls back to the first option
_lookup_reprogram_option_default(reprogram_id) ==
    IF reprogram_id \in DOMAIN reprogram_options
    THEN reprogram_options[reprogram_id] ELSE reprogram_options[1]

\* returns the days of the option (label left out); (None, None) when absent
_lookup_reprogram_option(reprogram_id) ==
    IF reprogram_id \in DOMAIN reprogram_options
    THEN reprogram_options[reprogram_id] ELSE Null

\* ------------------------------------------------------------- ISO dates
\* a date string is well formed (a date, or a datetime whose time part is
\* dropped by .date()) or is not parseable
IsoDate(d) == [kind |-> "date", day |-> d]

IsoDateTime(d) == [kind |-> "datetime", day |-> d]

IsoGarbage == [kind |-> "garbage", day |-> 0]

\* datetime.fromisoformat(s).date(); Null stands for the raised exception
fromisoformat(s) == IF s.kind \in {"date", "datetime"} THEN Some(s.day) ELSE Null

\* Python "x or None" on an optional integer: None and 0 are both dropped
OrNone(x) == IF x # Null /\ x[1] # 0 THEN x ELSE Null

\* ---------------------------------------------- create_or_update_activity
EmptyCui == 0

\* day number of the day the process starts
Today0 == 1000

ProgDays(p) ==
    LET prog_id == OrNone(p.programare_id)
        override == OrNone(p.programare_days)
    IN  IF override # Null THEN override
        ELSE IF prog_id # Null THEN _lookup_reprogram_option(prog_id[1])
        ELSE Null

ScheduledFor(p, day) ==
    LET prog_days == ProgDays(p)
        scheduled == IF prog_days # Null THEN Some(day + prog_days[1]) ELSE Null
    IN  IF p.scheduled_date # Null /\ scheduled = Null
        THEN fromisoformat(p.scheduled_date[1])
        ELSE scheduled

NewActivity(acts, p, day) ==
    [id |-> Len(acts) + 1,
     cui |-> p.firm_id,
     comment |-> p.comment,
     score |-> OrNone(p.score),
     reprogram_id |-> OrNone(p.programare_id),
     reprogram_days |-> ProgDays(p),
     scheduled_date |-> ScheduledFor(p, day),
     completed |-> p.completed,
     created_at |-> Len(acts) + 1]

\* activities inserted since the table was first seen
Created(acts) == {i \in 1..Len(acts) : acts[i].created_at > 0}

\* ------------------------------------------------------------ api_agenda
\* the queries without "COALESCE(a.completed, false) = false"
NotCompletedOmitted(a) == TRUE

NotCompleted(a) == a.completed = FALSE

CuiClause(a, cui) == cui = Null \/ cui[1] = EmptyCui \/ a.cui = cui[1]

ScheduledRows(acts, day, cui) ==
    {i \in 1..Len(acts) : /\ acts[i].scheduled_date # Null
                          /\ acts[i].scheduled_date[1] = day
                          /\ NotCompleted(acts[i])
                          /\ CuiClause(acts[i], cui)}

OverdueRows(acts, day, cui) ==
    {i \in 1..Len(acts) : /\ acts[i].scheduled_date # Null
                          /\ acts[i].scheduled_date[1] < day
                          /\ NotCompleted(acts[i])
                          /\ CuiClause(acts[i], cui)}

\* the window closed one day early
NearbyRowsExclusiveEnd(acts, day, cui) ==
    {i \in 1..Len(acts) : /\ acts[i].scheduled_date # Null
                          /\ acts[i].scheduled_date[1] > day
                          /\ acts[i].scheduled_date[1] < day + NearbyDays
                          /\ NotCompleted(acts[i])
                          /\ CuiClause(acts[i], cui)}

NearbyRows(acts, day, cui) ==
    {i \in 1..Len(acts) : /\ acts[i].scheduled_date # Null
                          /\ acts[i].scheduled_date[1] > day
                          /\ acts[i].scheduled_date[1] <= day + NearbyDays
                          /\ NotCompleted(acts[i])
                          /\ CuiClause(acts[i], cui)}

\* ORDER BY key DESC LIMIT k over the row set M: every set of rows the
\* query can return (rows equal on the key at the cut are interchangeable)
TopSets(K, k) ==
    IF Cardinality(K) <= k THEN { {p[1] : p \in K} }
    ELSE LET thr == CHOOSE v \in {p[2] : p \in K} :
                      /\ Cardinality({p \in K : p[2] > v}) < k
                      /\ Cardinality({p \in K : p[2] >= v}) >= k
             better == {p[1] : p \in {q \in K : q[2] > thr}}
             tied == {p[1] : p \in {q \in K : q[2] = thr}}
         IN  { better \cup C :
                 C \in {X \in SUBSET tied : Cardinality(X) = k - Cardinality(better)} }

ScheduledList(acts, day, cui) ==
    TopSets({<<i, acts[i].created_at>> : i \in ScheduledRows(acts, day, cui)},
            ScheduledLimit)

OverdueList(acts, day, cui) ==
    TopSets({<<i, acts[i].scheduled_date[1]>> : i \in OverdueRows(acts, day, cui)},
            OverdueLimit)

NearbyList(acts, day, cui) ==
    TopSets({<<i, 0 - acts[i].scheduled_date[1]>> : i \in NearbyRows(acts, day, cui)},
            NearbyLimit)

\* ------------------------------------------------- database transactions
\* every statement of the block committed on its own
engine_autocommit == "autocommit"

\* "with engine.begin() as conn": the statements of the block commit together
\* when the block exits.  TRUNCATE takes an ACCESS EXCLUSIVE lock that is held
\* until then, so no other statement touches suggested_top in between.
engine_begin == "commit_on_exit"

Procs == {1, 2}

\* since: rows other sessions committed to suggested_top after this block's
\* TRUNCATE ran (none can exist while the TRUNCATE lock is honoured)
IdleTx ==
    [pc |-> "idle", limit |-> 0, rows |-> <<>>, work |-> <<>>, since |-> <<>>,
     ret |-> <<>>]

TxIdle == [p \in Procs |-> IdleTx]

\* a TRUNCATE that takes no table lock
LockedNever(t) == FALSE

Locked(t) == engine_begin = "commit_on_exit" /\ \E p \in Procs : t[p].pc = "insert"

\* CREATE UNIQUE INDEX idx_suggested_top_cui ON public.suggested_top (cui)
idx_suggested_top_cui(top) ==
    \A i \in 1..Len(top), j \in 1..Len(top) : top[i].cui = top[j].cui => i = j

\* content of suggested_top other sessions see after a statement of the block
AfterStatement(top, work) == IF engine_begin = "commit_on_exit" THEN top ELSE work

\* what a SELECT on suggested_top reads (none while the table is locked)
ReadTop(top, t) == IF Locked(t) THEN {} ELSE {top}

\* --------------------------------------------------------------- handlers
\* times a handler issues a database call: once, in a try block without a loop
RequestTries == 1

\* a response of a handler that went to the database
Served(r) == [db |-> db_up, tries |-> RequestTries] @@ r

\* a response given before any database call
Refused(r) == [db |-> db_up, tries |-> 0] @@ r

RebuildResp(limit, top) ==
    [op |-> "rebuild", status |-> 200, limit |-> limit, inserted |-> Len(top)]

MarkUsedResp(cuis) ==
    [op |-> "mark_used", status |-> 200, marked |-> Cardinality(cuis), cuis |-> cuis]

CreateResp(row, p) ==
    [op |-> "create", status |-> 201, id |-> row.id, cui |-> row.cui,
     scheduled_date |-> row.scheduled_date, payload |-> p, detail |-> ""]

\* HTTPException(400, "firm_id and comment required")
CreateRejected(p) ==
    [op |-> "create", status |-> 400, id |-> 0, cui |-> p.firm_id,
     scheduled_date |-> Null, payload |-> p, detail |-> "firm_id and comment required"]

\* except Exception: HTTPException(500, "Internal server error")
CreateFailed(p) ==
    [op |-> "create", status |-> 500, id |-> 0, cui |-> p.firm_id,
     scheduled_date |-> Null, payload |-> p, detail |-> "Internal server error"]

\* GET /health
health ==
    /\ resp' = Served([op |-> "health", status |-> IF db_up THEN 200 ELSE 503])
    /\ UNCHANGED <<firms, activity_types, activities, suggested_top, suggested_by_caen, today,
                   contacted, completedEver, lastFull, tx, db_up, boot>>

\* POST /admin/rebuild_top20 : rebuild_top20(limit); a negative LIMIT is
\* rejected by the database and the transaction rolls back
admin_rebuild(limit) ==
    /\ IF ~db_up \/ limit < 0
       THEN /\ resp' = Served([op |-> "rebuild", status |-> 500, limit |-> limit,
                               inserted |-> 0])
            /\ UNCHANGED <<suggested_top, lastFull>>
       ELSE \E top \in RebuildResults(firms, activities, limit) :
              /\ suggested_top' = top
              /\ lastFull' = CuiSeq(top)
              /\ resp' = Served(RebuildResp(limit, top))
    /\ UNCHANGED <<firms, activity_types, activities, suggested_by_caen, today, contacted,
                   completedEver, tx, db_up, boot>>

\* GET /api/suggested_next?n= (1 <= n <= 20 enforced by the Query validator);
\* an exception of take_next_suggestions is answered with an empty list
api_suggested_next(n) ==
    /\ IF n < 1 \/ n > SuggestedNextMax
       THEN resp' = Refused([op |-> "take", status |-> 422, n |-> n, items |-> <<>>,
                             seen |-> <<>>, complete |-> <<>>, during |-> {}])
       ELSE IF ~db_up
       THEN resp' = Served([op |-> "take", status |-> 200, n |-> n, items |-> <<>>,
                            seen |-> <<>>, complete |-> <<>>, during |-> {}])
       ELSE \E seen \in ReadTop(suggested_top, tx) :
              resp' = Served([op |-> "take", status |-> 200, n |-> n,
                              items |-> take_next_suggestions(seen, n),
                              seen |-> seen, complete |-> lastFull,
                              during |-> {p \in Procs : tx[p].pc # "idle"}])
    /\ UNCHANGED <<firms, activity_types, activities, suggested_top, suggested_by_caen, today,
                   contacted, completedEver, lastFull, tx, db_up, boot>>

\* the UPDATE without the rebuild after it
MarkUsedNoRebuild(f, acts, top, cuis) == {MarkUsedRows(top, cuis)}

\* the UPDATE of mark_suggestions_used followed by its rebuild_top20(20):
\* the tables the handler can leave behind
MarkUsedThenRebuild(f, acts, top, cuis) ==
    LET flagged == MarkUsedRows(top, cuis)
    IN  RebuildResults(f, acts, DefaultLimit)

\* POST /api/suggested_mark_used : mark_suggestions_used(cuis)
mark_suggestions_used(cuis) ==
    /\ IF cuis = {}
       THEN /\ resp' = Refused(MarkUsedResp(cuis))
            /\ UNCHANGED <<suggested_top, suggested_by_caen, lastFull>>
       ELSE IF ~db_up
       THEN /\ resp' = Served([op |-> "mark_used", status |-> 500, marked |-> 0,
                               cuis |-> cuis])
            /\ UNCHANGED <<suggested_top, suggested_by_caen, lastFull>>
       ELSE \E top \in MarkUsedThenRebuild(firms, activities, suggested_top, cuis),
               caen \in CaenRebuildResults(firms, activities, DefaultLimit) :
              /\ suggested_top' = top
              /\ suggested_by_caen' = caen
              /\ lastFull' = CuiSeq(top)
              /\ resp' = Served(MarkUsedResp(cuis))
    /\ UNCHANGED <<firms, activity_types, activities, today, contacted, completedEver, tx, db_up, boot>>

\* POST /api/activities
create_or_update_activity(p) ==
    /\ Cardinality(Created(activities)) < MaxActivities
    /\ IF p.firm_id = EmptyCui \/ p.comment = ""
       THEN /\ resp' = Refused(CreateRejected(p))
            /\ UNCHANGED <<activities, suggested_top, suggested_by_caen, contacted,
                           lastFull>>
       ELSE IF ~db_up
       THEN /\ resp' = Served(CreateFailed(p))
            /\ UNCHANGED <<activities, suggested_top, suggested_by_caen, contacted,
                           lastFull>>
       ELSE LET row == NewActivity(activities, p, today)
                acts == Append(activities, row)
                flagged == MarkUsedRows(suggested_top, {p.firm_id})
            IN  /\ activities' = acts
                /\ contacted' = contacted \cup {p.firm_id}
                /\ \E top \in RebuildResults(firms, acts, DefaultLimit),
                      caen \in CaenRebuildResults(firms, acts, DefaultLimit) :
                     /\ suggested_top' = top
                     /\ suggested_by_caen' = caen
                     /\ lastFull' = CuiSeq(top)
                /\ resp' = Served(CreateResp(row, p))
    /\ UNCHANGED <<firms, activity_types, today, completedEver, tx, db_up, boot>>

\* the UPDATE without its WHERE clause
CompleteRowsAll(acts, id) ==
    [i \in 1..Len(acts) |-> [acts[i] EXCEPT !.completed = TRUE]]

\* UPDATE activities SET completed = true WHERE id = :id
CompleteRows(acts, id) ==
    [i \in 1..Len(acts) |->
        IF acts[i].id = id THEN [acts[i] EXCEPT !.completed = TRUE] ELSE acts[i]]

\* POST /api/activities/{activity_id}/complete ; the HTTPException(404) raised
\* for a missing row is caught by the handler's own "except Exception"
mark_activity_completed(id) ==
    /\ IF db_up /\ \E i \in 1..Len(activities) : activities[i].id = id
       THEN /\ activities' = CompleteRows(activities, id)
            /\ completedEver' = completedEver \cup {id}
            /\ resp' = Served([op |-> "complete", status |-> 200, id |-> id,
                               updated |-> 1, detail |-> ""])
       ELSE /\ resp' = Served([op |-> "complete", status |-> 500, id |-> id,
                               updated |-> 0, detail |-> "failed"])
            /\ UNCHANGED <<activities, completedEver>>
    /\ UNCHANGED <<firms, activity_types, suggested_top, suggested_by_caen, today, contacted,
                   lastFull, tx, db_up, boot>>

\* an agenda that consumes the suggestions it shows
api_agenda_marks_used(day, cui) ==
    /\ LET target == IF day = Null THEN Some(today) ELSE fromisoformat(day[1])
           shown == IF target = Null \/ ~db_up THEN <<>>
                    ELSE take_next_suggestions(suggested_top, AgendaTake)
       IN  /\ resp' = Served([op |-> "agenda", status |-> IF target = Null THEN 400 ELSE 200,
                              date |-> 0, cui |-> cui, scheduled |-> {}, overdue |-> {},
                              nearby |-> {}, suggested |-> shown, day |-> day,
                              detail |-> ""])
           /\ suggested_top' =
                 MarkUsedRows(suggested_top, {shown[i] : i \in 1..Len(shown)})
    /\ UNCHANGED <<firms, activity_types, activities, suggested_by_caen, today, contacted,
                   completedEver, lastFull, tx, db_up, boot>>

\* GET /api/agenda?day=&cui=
api_agenda(day, cui) ==
    /\ LET target == IF day = Null THEN Some(today) ELSE fromisoformat(day[1])
       IN  IF target = Null
           THEN resp' = Refused([op |-> "agenda", status |-> 400, date |-> 0,
                                 cui |-> cui, scheduled |-> {}, overdue |-> {},
                                 nearby |-> {}, suggested |-> <<>>, day |-> day,
                                 detail |-> "invalid day"])
           ELSE IF ~db_up
           THEN resp' = Served([op |-> "agenda", status |-> 500, date |-> 0,
                                cui |-> cui, scheduled |-> {}, overdue |-> {},
                                nearby |-> {}, suggested |-> <<>>, day |-> day,
                                detail |-> "internal error"])
           ELSE \E s \in ScheduledList(activities, target[1], cui),
                   o \in OverdueList(activities, target[1], cui),
                   nb \in NearbyList(activities, target[1], cui),
                   seen \in ReadTop(suggested_top, tx) :
                  resp' = Served([op |-> "agenda", status |-> 200, date |-> target[1],
                                  cui |-> cui, scheduled |-> s, overdue |-> o,
                                  nearby |-> nb,
                                  suggested |-> take_next_suggestions(seen, AgendaTake),
                                  day |-> day, detail |-> ""])
    /\ UNCHANGED <<firms, activity_types, activities, suggested_top, suggested_by_caen, today,
                   contacted, completedEver, lastFull, tx, db_up, boot>>

\* ------------------------------------------------------------ startup
StartupAttempts == 3

\* the loop written with one pass too many
AfterFailedAttemptOneMore(log) ==
    IF Len(log) >= StartupAttempts + 1 THEN "gave_up" ELSE "attempt"

\* "for attempt in range(3)": where the loop stands after a failed attempt
AfterFailedAttempt(log) ==
    IF Len(log) >= StartupAttempts THEN "gave_up" ELSE "attempt"

BootReturned == [pc |-> "returned", log |-> <<"up">>]

\* one pass of the loop of startup_check_db.  An attempt that reaches the
\* database creates the tables, runs rebuild_top20(20) and rebuild_top20_caen(20)
\* inside a try block of their own (either may fail) and returns; an
\* OperationalError sends the loop to its next pass.
startup_check_db ==
    /\ boot.pc = "attempt"
    /\ IF db_up
       THEN /\ boot' = [pc |-> "returned", log |-> Append(boot.log, "up")]
            /\ \E outcome \in {"ok", "top_failed", "caen_failed"} :
                 /\ IF outcome = "top_failed"
                    THEN UNCHANGED <<suggested_top, lastFull>>
                    ELSE \E top \in RebuildResults(firms, activities, DefaultLimit) :
                           /\ suggested_top' = top
                           /\ lastFull' = CuiSeq(top)
                 /\ IF outcome = "ok"
                    THEN suggested_by_caen' \in
                           CaenRebuildResults(firms, activities, DefaultLimit)
                    ELSE UNCHANGED suggested_by_caen
       ELSE /\ boot' = [pc |-> AfterFailedAttempt(Append(boot.log, "down")),
                        log |-> Append(boot.log, "down")]
            /\ UNCHANGED <<suggested_top, suggested_by_caen, lastFull>>
    /\ UNCHANGED <<firms, activity_types, activities, today, resp, contacted, completedEver, tx, db_up>>

\* the database becomes unreachable
DbFails ==
    /\ db_up
    /\ db_up' = FALSE
    /\ UNCHANGED <<firms, activity_types, activities, suggested_top, suggested_by_caen, today, resp,
                   contacted, completedEver, lastFull, tx, boot>>

\* the database is reachable again (followed only for a process whose startup
\* has not given up: the tables startup creates exist from then on)
DbRecovers ==
    /\ ~db_up
    /\ boot.pc # "gave_up"
    /\ db_up' = TRUE
    /\ UNCHANGED <<firms, activity_types, activities, suggested_top, suggested_by_caen, today, resp,
                   contacted, completedEver, lastFull, tx, boot>>

\* midnight (UTC) passes
Tick ==
    /\ today < Today0 + MaxDayOffset
    /\ today' = today + 1
    /\ UNCHANGED <<firms, activity_types, activities, suggested_top, suggested_by_caen, resp,
                   contacted, completedEver, lastFull, tx, db_up, boot>>

\* ------------------------------------------------------------ inputs
\* the rows seed_data.py puts in activity_types
SeedTypes == {"contact", "oferta"}

Payload(cui, comment, pid, pdays, sdate, completed) ==
    [firm_id |-> cui, comment |-> comment, score |-> Null, programare_id |-> pid,
     programare_days |-> pdays, scheduled_date |-> sdate, completed |-> completed]

\* payloads of the ranking specification: who gets an activity matters
RankPayloads ==
    {Payload(c, "note", Null, Null, Null, FALSE) : c \in VarCuis \cup {FillCui(1)}}
      \cup {Payload(EmptyCui, "note", Null, Null, Null, FALSE),
            Payload(1, "", Null, Null, Null, FALSE)}

CompleteIds == {1, MaxActivities + 1}

NoResp == [op |-> "none", status |-> 0, db |-> TRUE, tries |-> 0]

\* state after startup_check_db: tables created, rebuild_top20(20) has run
InitOver(tables) ==
    /\ firms \in tables
    /\ activities = <<>>
    /\ today = Today0
    /\ suggested_top \in RebuildResults(firms, activities, DefaultLimit)
    /\ suggested_by_caen \in CaenRebuildResults(firms, activities, DefaultLimit)
    /\ lastFull = CuiSeq(suggested_top)
    /\ resp = NoResp
    /\ contacted = {}
    /\ completedEver = {}
    /\ tx = TxIdle
    /\ db_up = TRUE
    /\ boot = BootReturned
    /\ activity_types = SeedTypes

Next ==
    \/ \E limit \in (-1..MaxLimit) \cup {DefaultLimit} : admin_rebuild(limit)
    \/ \E n \in (0..MaxN) \cup {SuggestedNextMax, SuggestedNextMax + 1} : api_suggested_next(n)
    \/ \E cuis \in SUBSET VarCuis : mark_suggestions_used(cuis)
    \/ \E p \in RankPayloads : create_or_update_activity(p)
    \/ \E id \in CompleteIds : mark_activity_completed(id)
    \/ \E day \in {Null, Some(IsoGarbage)} : api_agenda(day, Null)

Spec == InitOver(FirmTables) /\ [][Next]_vars

\* ---------------------------------------------- large firm table
BigPayloads == {Payload(c, "note", Null, Null, Null, FALSE) : c \in VarCuis}

NextBig ==
    \/ \E limit \in {DefaultLimit - 1, DefaultLimit + 1} : admin_rebuild(limit)
    \/ \E n \in {SuggestedNextMax} : api_suggested_next(n)
    \/ \E cuis \in SUBSET {1} : mark_suggestions_used(cuis)
    \/ \E p \in BigPayloads : create_or_update_activity(p)
    \/ \E id \in {1} : mark_activity_completed(id)
    \/ \E day \in {Null} : api_agenda(day, Null)

\* tables with more firms than the default limit of rebuild_top20
SpecBig ==
    /\ InitOver({FirmTable(r1, [lic |-> Null, cifra |-> Null, judet |-> Null],
                           DefaultLimit - 1) :
                    r1 \in [lic : {Null, Some(1)}, cifra : {Null},
                            judet : {Null, ConstantaUpper}]})
    /\ [][NextBig]_vars

\* ------------------------------------------- handlers, statement by statement
\* Requests are served by a pool of threads; each handler below runs on a
\* worker p and is split where its transactions begin and end.
Select(p, limit, ret) ==
    \E rows \in CandidateRows(firms, activities, limit) :
        tx' = [tx EXCEPT ![p] = [pc |-> "truncate", limit |-> limit, rows |-> rows,
                                 work |-> <<>>, since |-> <<>>, ret |-> ret]]

\* admin_rebuild up to the candidate SELECT of rebuild_top20
StartAdminRebuild(p, limit) ==
    /\ tx[p].pc = "idle"
    /\ db_up
    /\ limit >= 0
    /\ Select(p, limit, <<"rebuild">>)
    /\ UNCHANGED <<firms, activity_types, activities, suggested_top, suggested_by_caen, today, resp,
                   contacted, completedEver, lastFull, db_up, boot>>

\* mark_suggestions_used: the UPDATE in its own transaction, committed
StartMarkUsed(p, cuis) ==
    /\ tx[p].pc = "idle"
    /\ db_up
    /\ cuis # {}
    /\ ~Locked(tx)
    /\ suggested_top' = MarkUsedRows(suggested_top, cuis)
    /\ tx' = [tx EXCEPT ![p] = [pc |-> "select", limit |-> DefaultLimit, rows |-> <<>>,
                                work |-> <<>>, since |-> <<>>,
                                ret |-> <<"mark_used", cuis>>]]
    /\ UNCHANGED <<firms, activity_types, activities, suggested_by_caen, today, resp, contacted,
                   completedEver, lastFull, db_up, boot>>

\* create_or_update_activity: INSERT and UPDATE ... SET used = true, committed.
\* ret keeps the stored row, the payload and suggested_top as the call found it
StartCreate(p, pl) ==
    /\ tx[p].pc = "idle"
    /\ db_up
    /\ Cardinality(Created(activities)) < MaxActivities
    /\ pl.firm_id # EmptyCui /\ pl.comment # ""
    /\ ~Locked(tx)
    /\ LET row == NewActivity(activities, pl, today)
       IN  /\ activities' = Append(activities, row)
           /\ contacted' = contacted \cup {pl.firm_id}
           /\ suggested_top' = MarkUsedRows(suggested_top, {pl.firm_id})
           /\ tx' = [tx EXCEPT ![p] = [pc |-> "select", limit |-> DefaultLimit,
                                       rows |-> <<>>, work |-> <<>>, since |-> <<>>,
                                       ret |-> <<"create", row, pl, suggested_top>>]]
    /\ UNCHANGED <<firms, activity_types, suggested_by_caen, today, resp, completedEver, lastFull,
                   db_up, boot>>

\* rebuild_top20: the candidate SELECT
RebuildSelect(p) ==
    /\ tx[p].pc = "select"
    /\ db_up
    /\ Select(p, tx[p].limit, tx[p].ret)
    /\ UNCHANGED <<firms, activity_types, activities, suggested_top, suggested_by_caen, today, resp,
                   contacted, completedEver, lastFull, db_up, boot>>

\* rebuild_top20: TRUNCATE public.suggested_top
RebuildTruncate(p) ==
    /\ tx[p].pc = "truncate"
    /\ db_up
    /\ ~Locked(tx)
    /\ tx' = [tx EXCEPT ![p].pc = "insert", ![p].work = <<>>, ![p].since = <<>>]
    /\ suggested_top' = AfterStatement(suggested_top, <<>>)
    /\ UNCHANGED <<firms, activity_types, activities, suggested_by_caen, today, resp, contacted,
                   completedEver, lastFull, db_up, boot>>

\* rebuild_top20: one INSERT of the loop
RebuildInsert(p) ==
    /\ tx[p].pc = "insert"
    /\ db_up
    /\ Len(tx[p].work) < Len(tx[p].rows)
    /\ LET work == Append(tx[p].work, InsertedRow(firms, tx[p].rows, Len(tx[p].work) + 1))
       IN  /\ tx' = [tx EXCEPT ![p].work = work]
           /\ suggested_top' = AfterStatement(suggested_top, work)
    /\ UNCHANGED <<firms, activity_types, activities, suggested_by_caen, today, resp, contacted,
                   completedEver, lastFull, db_up, boot>>

\* except IntegrityError: HTTPException(400, "Database integrity error")
CreateIntegrityError(p) ==
    [op |-> "create", status |-> 400, id |-> 0, cui |-> p.firm_id,
     scheduled_date |-> Null, payload |-> p, detail |-> "Database integrity error"]

\* a statement of rebuild_top20 raises and its block rolls back: admin_rebuild
\* answers 500, mark_suggestions_used swallows the exception and goes on to
\* rebuild_top20_caen, create_or_update_activity answers with `failed`
RebuildRaises(p, failed) ==
    /\ IF tx[p].ret[1] = "rebuild"
       THEN /\ resp' = Served([op |-> "rebuild", status |-> 500,
                               limit |-> tx[p].limit, inserted |-> 0])
            /\ tx' = [tx EXCEPT ![p] = IdleTx]
       ELSE IF tx[p].ret[1] = "mark_used"
       THEN /\ tx' = [tx EXCEPT ![p].pc = "caen", ![p].work = <<>>, ![p].since = <<>>]
            /\ UNCHANGED resp
       ELSE /\ resp' = Served(failed)
            /\ tx' = [tx EXCEPT ![p] = IdleTx]
    /\ UNCHANGED <<firms, activity_types, activities, suggested_top, suggested_by_caen, today,
                   contacted, completedEver, lastFull, db_up, boot>>

\* rebuild_top20: the block exits and commits: the table holds what other
\* sessions committed since the TRUNCATE and the rows of this block, unless the
\* unique index rejects them.  admin_rebuild returns; the other two handlers
\* go on to rebuild_top20_caen(20)
RebuildCommit(p) ==
    /\ tx[p].pc = "insert"
    /\ db_up
    /\ Len(tx[p].work) = Len(tx[p].rows)
    /\ IF ~idx_suggested_top_cui(tx[p].since \o tx[p].work)
       THEN RebuildRaises(p, CreateIntegrityError(tx[p].ret[3]))
       ELSE /\ suggested_top' = tx[p].since \o tx[p].work
            /\ lastFull' = CuiSeq(tx[p].work)
            /\ IF tx[p].ret[1] = "rebuild"
               THEN /\ resp' = Served(RebuildResp(tx[p].limit, tx[p].work))
                    /\ tx' = [q \in Procs |->
                                IF q = p THEN IdleTx
                                ELSE IF tx[q].pc = "insert"
                                THEN [tx[q] EXCEPT !.since = @ \o tx[p].work]
                                ELSE tx[q]]
               ELSE /\ tx' = [q \in Procs |->
                                IF q = p THEN [tx[p] EXCEPT !.pc = "caen"]
                                ELSE IF tx[q].pc = "insert"
                                THEN [tx[q] EXCEPT !.since = @ \o tx[p].work]
                                ELSE tx[q]]
                    /\ UNCHANGED resp
            /\ UNCHANGED <<firms, activity_types, activities, suggested_by_caen, today, contacted,
                           completedEver, db_up, boot>>

\* the database connection is lost while rebuild_top20 runs
RebuildAborts(p) ==
    /\ tx[p].pc \in {"select", "truncate", "insert"}
    /\ ~db_up
    /\ RebuildRaises(p, CreateFailed(tx[p].ret[3]))

\* rebuild_top20_caen(20) in a transaction of its own; the handler returns.
\* mark_suggestions_used swallows its exception, create_or_update_activity
\* answers 500
RebuildCaen(p) ==
    /\ tx[p].pc = "caen"
    /\ IF db_up
       THEN suggested_by_caen' \in CaenRebuildResults(firms, activities, DefaultLimit)
       ELSE UNCHANGED suggested_by_caen
    /\ resp' = (IF tx[p].ret[1] = "mark_used" THEN Served(MarkUsedResp(tx[p].ret[2]))
                ELSE IF db_up THEN Served(CreateResp(tx[p].ret[2], tx[p].ret[3]))
                ELSE Served(CreateFailed(tx[p].ret[3])))
    /\ tx' = [tx EXCEPT ![p] = IdleTx]
    /\ UNCHANGED <<firms, activity_types, activities, suggested_top, today, contacted, completedEver,
                   lastFull, db_up, boot>>

\* workers that serve writing handlers in this specification
ConcProcs == {1}

NextConc ==
    \/ \E p \in ConcProcs, limit \in (0..MaxLimit) : StartAdminRebuild(p, limit)
    \/ \E p \in ConcProcs, cuis \in SUBSET VarCuis : StartMarkUsed(p, cuis)
    \/ \E p \in ConcProcs, pl \in BigPayloads : StartCreate(p, pl)
    \/ \E p \in ConcProcs : RebuildSelect(p)
    \/ \E p \in ConcProcs : RebuildTruncate(p)
    \/ \E p \in ConcProcs : RebuildInsert(p)
    \/ \E p \in ConcProcs : RebuildCommit(p)
    \/ \E p \in ConcProcs : RebuildCaen(p)
    \/ \E n \in (1..MaxN) : api_suggested_next(n)

SpecConc ==
    /\ InitOver({FirmTable(r1, r2, 1) : r1 \in PlainRows, r2 \in PlainRows})
    /\ [][NextConc]_vars

\* ------------------------------------------------------- agenda inputs
\* an activities table with more overdue rows than the overdue query returns
BulkActivities ==
    [i \in 1..(OverdueLimit + 1) |->
        [id |-> i, cui |-> 2, comment |-> "note", score |-> Null,
         reprogram_id |-> Null, reprogram_days |-> Null,
         scheduled_date |-> Some(Today0 - 1 - i), completed |-> FALSE,
         created_at |-> 0]]

\* option 6 is "1 saptamana" (7 days), option 7 "2 saptamani" (14 days)
AgendaPayloads ==
    { Payload(1, "note", Some(6), Null, Null, FALSE),
      Payload(1, "note", Some(7), Null, Null, FALSE),
      Payload(1, "note", Null, Null, Some(IsoDate(Today0)), FALSE),
      Payload(1, "note", Null, Null, Some(IsoDate(Today0)), TRUE),
      Payload(2, "note", Null, Null, Some(IsoDateTime(Today0 - 1)), FALSE),
      Payload(1, "note", Null, Null, Some(IsoGarbage), FALSE),
      Payload(EmptyCui, "note", Null, Null, Null, FALSE) }

AgendaDays ==
    {Null, Some(IsoGarbage)} \cup {Some(IsoDate(Today0 + k)) : k \in (-1)..MaxDayOffset}

AgendaFirms ==
    FirmTable([lic |-> Some(1), cifra |-> Null, judet |-> Null],
              [lic |-> Null, cifra |-> Some(1), judet |-> Null], 1)

InitAgendaOver(tables) ==
    /\ firms = AgendaFirms
    /\ activities \in tables
    /\ today = Today0
    /\ suggested_top \in RebuildResults(firms, activities, DefaultLimit)
    /\ suggested_by_caen \in CaenRebuildResults(firms, activities, DefaultLimit)
    /\ lastFull = CuiSeq(suggested_top)
    /\ resp = NoResp
    /\ contacted = {}
    /\ completedEver = {}
    /\ tx = TxIdle
    /\ db_up = TRUE
    /\ boot = BootReturned
    /\ activity_types = SeedTypes

NextAgenda ==
    \/ \E limit \in {DefaultLimit} : admin_rebuild(limit)
    \/ \E n \in {AgendaTake} : api_suggested_next(n)
    \/ \E cuis \in {{1}} : mark_suggestions_used(cuis)
    \/ \E p \in AgendaPayloads : create_or_update_activity(p)
    \/ \E id \in {1, Len(activities), Len(activities) + 1} : mark_activity_completed(id)
    \/ \E day \in AgendaDays, cui \in {Null, Some(1)} : api_agenda(day, cui)

SpecAgenda == InitAgendaOver({<<>>}) /\ [][NextAgenda]_vars

\* the agenda over the long activities table
BulkPayloads ==
    { Payload(1, "note", Some(6), Null, Null, FALSE),
      Payload(1, "note", Null, Null, Some(IsoDate(Today0)), FALSE),
      Payload(2, "note", Null, Null, Some(IsoDateTime(Today0 - 1)), FALSE),
      Payload(1, "note", Null, Null, Some(IsoGarbage), TRUE) }

NextAgendaBulk ==
    \/ \E limit \in {DefaultLimit} : admin_rebuild(limit)
    \/ \E n \in {AgendaTake} : api_suggested_next(n)
    \/ \E cuis \in {{1}} : mark_suggestions_used(cuis)
    \/ \E p \in BulkPayloads : create_or_update_activity(p)
    \/ \E id \in {Len(activities)} : mark_activity_completed(id)
    \/ \E day \in AgendaDays \ {Some(IsoGarbage)}, cui \in {Null, Some(1)} : api_agenda(day, cui)

SpecAgendaBulk == InitAgendaOver({BulkActivities}) /\ [][NextAgendaBulk]_vars

\* ------------------------------------------------ follow-up scheduling
ScorePayload(cui, score, pid, pdays, sdate) ==
    [firm_id |-> cui, comment |-> "note", score |-> score, programare_id |-> pid,
     programare_days |-> pdays, scheduled_date |-> sdate, completed |-> FALSE]

OrNull(S) == {Null} \cup {Some(x) : x \in S}

\* every score and every reprogram option on its own, the ids and scores
\* next to the valid ones included; an override of 0 days with and without
\* an option
TablePayloads ==
    {ScorePayload(1, Some(sc), Null, Null, Null) : sc \in 0..(Len(reprogram_options) + 1)}
      \cup {ScorePayload(1, Null, Some(k), Null, Null) :
               k \in 0..(Len(reprogram_options) + 1)}
      \cup {ScorePayload(1, Some(Len(reprogram_options) + 1),
                         Some(Len(reprogram_options) + 1), Null, Null)}
      \cup {ScorePayload(1, Null, pid, Some(0), Null) : pid \in OrNull({6})}

\* offsets and explicit dates together
SchedPayloads ==
    {ScorePayload(1, sc, pid, pdays, sdate) :
        sc \in OrNull({3}), pid \in OrNull({6}), pdays \in OrNull({2}),
        sdate \in OrNull({IsoDate(Today0 + 1), IsoGarbage})}
      \cup {ScorePayload(EmptyCui, Null, Null, Null, Some(IsoGarbage))}

SchedFirms ==
    FirmTable([lic |-> Some(1), cifra |-> Null, judet |-> Null],
              [lic |-> Null, cifra |-> Some(1), judet |-> Null], 1)

InitSched ==
    /\ firms = SchedFirms
    /\ activities = <<>>
    /\ today = Today0
    /\ suggested_top \in RebuildResults(firms, activities, DefaultLimit)
    /\ suggested_by_caen \in CaenRebuildResults(firms, activities, DefaultLimit)
    /\ lastFull = CuiSeq(suggested_top)
    /\ resp = NoResp
    /\ contacted = {}
    /\ completedEver = {}
    /\ tx = TxIdle
    /\ db_up = TRUE
    /\ boot = BootReturned
    /\ activity_types = SeedTypes

NextSched ==
    \/ \E p \in TablePayloads : activities = <<>> /\ create_or_update_activity(p)
    \/ \E p \in SchedPayloads : create_or_update_activity(p)
    \/ \E day \in {Null, Some(IsoGarbage), Some(IsoDate(Today0 + 1))} :
          api_agenda(day, Null)
    \/ Tick

SpecSched == InitSched /\ [][NextSched]_vars

\* ------------------------------------- startup and an unreachable database
\* the process has just been started: startup_check_db has not run yet
InitFault ==
    /\ firms = SchedFirms
    /\ activities = <<>>
    /\ today = Today0
    /\ suggested_top = <<>>
    /\ suggested_by_caen = <<>>
    /\ lastFull = <<>>
    /\ resp = NoResp
    /\ contacted = {}
    /\ completedEver = {}
    /\ tx = TxIdle
    /\ db_up \in BOOLEAN
    /\ boot = [pc |-> "attempt", log |-> <<>>]
    /\ activity_types = SeedTypes

\* requests are served once the startup handler is over
Serving == boot.pc # "attempt"

NextFault ==
    \/ startup_check_db
    \/ DbFails
    \/ DbRecovers
    \/ Serving /\ health
    \/ Serving /\ \E day \in {Null, Some(IsoGarbage)} : api_agenda(day, Null)
    \/ Serving /\ \E n \in {0, AgendaTake} : api_suggested_next(n)
    \/ Serving /\ \E cuis \in {{}, {1}} : mark_suggestions_used(cuis)
    \/ Serving /\ \E limit \in {DefaultLimit} : admin_rebuild(limit)
    \/ Serving /\ \E p \in {Payload(1, "note", Some(6), Null, Null, FALSE),
                             Payload(EmptyCui, "note", Null, Null, Null, FALSE)} :
                     create_or_update_activity(p)
    \/ Serving /\ \E id \in {1, MaxActivities + 1} : mark_activity_completed(id)

SpecFault == InitFault /\ [][NextFault]_vars

\* the startup handler runs to its end: nothing else runs before it is over
SpecStartup == InitFault /\ [][NextFault]_vars /\ WF_vars(startup_check_db)

\* ------------------------------------------------------------ properties
\* the step is a create_or_update_activity call answered 201
CreatedStep == resp' # resp /\ resp'.op = "create" /\ resp'.status = 201

\* the row a create_or_update_activity call has just stored
StoredRow == activities'[Len(activities')]

\* the limit of the rebuild_top20 call the last handler completed, if any
RebuildLimit(r) ==
    IF r.op = "rebuild" /\ r.status = 200 THEN Some(r.limit)
    ELSE IF r.op = "mark_used" /\ r.marked > 0 THEN Some(DefaultLimit)
    ELSE IF r.op = "create" /\ r.status = 201 THEN Some(DefaultLimit)
    ELSE Null

HasActivityRow(c) == \E i \in 1..Len(activities) : activities[i].cui = c

C2_ContactedNeverSuggested ==
    /\ resp.op = "take" =>
           \A i \in 1..Len(resp.items) : resp.items[i] \notin contacted
    /\ \A n \in 1..SuggestedNextMax :
           \A i \in 1..Len(take_next_suggestions(suggested_top, n)) :
               take_next_suggestions(suggested_top, n)[i] \notin contacted

\* a take that returns something, after two activities were logged and one of
\* them completed, with a contacted company that the region filter lets through
C2_Witness ==
    /\ resp.op = "take" /\ resp.status = 200 /\ Len(resp.items) > 0
    /\ Len(activities) >= 2
    /\ activities[1].cui # activities[2].cui
    /\ \A c \in {activities[1].cui, activities[2].cui} :
           c \in DOMAIN firms /\ firms[c].judet = Null

\* C4: after rebuild_top20(limit) the table holds exactly min(limit, E) rows,
\* all eligible, ordered by license count then revenue (both descending), rank
\* equal to position, and no eligible company left out beats an included one.
C4_RebuildExact ==
    resp.op = "rebuild" /\ resp.status = 200 =>
        LET top == suggested_top
            E == {c \in DOMAIN firms :
                    /\ ~HasActivityRow(c)
                    /\ ~Contains(lower(Coalesce(firms[c].judet, <<>>)), ExcludedPattern)}
            lic(c) == IF firms[c].lic = Null THEN 0 ELSE firms[c].lic[1]
            rev(c) == IF firms[c].cifra = Null THEN 0 ELSE firms[c].cifra[1]
            Beats(a, b) == lic(a) > lic(b) \/ (lic(a) = lic(b) /\ rev(a) > rev(b))
        IN  /\ Len(top) = (IF resp.limit <= Cardinality(E) THEN resp.limit
                                                          ELSE Cardinality(E))
            /\ \A i \in 1..Len(top) :
                 /\ top[i].cui \in E
                 /\ top[i].rank = i
                 /\ top[i].licente = lic(top[i].cui)
                 /\ top[i].cifra_afaceri = rev(top[i].cui)
            /\ \A i, j \in 1..Len(top) :
                 i < j => top[i].cui # top[j].cui /\ ~Beats(top[j].cui, top[i].cui)
            /\ \A c \in E : (\A i \in 1..Len(top) : top[i].cui # c) =>
                 \A i \in 1..Len(top) : ~Beats(c, top[i].cui)

\* a rebuild that cut the list at the limit, with two rows equal on license
\* count that the revenue decided
C4_Witness ==
    /\ resp.op = "rebuild" /\ resp.status = 200
    /\ Len(suggested_top) = 2 /\ resp.limit = 2
    /\ Cardinality({c \in DOMAIN firms : ~HasActivityRow(c) /\ JudetAllowed(firms[c].judet)}) > 2
    /\ suggested_top[1].licente = suggested_top[2].licente
    /\ suggested_top[1].cifra_afaceri > suggested_top[2].cifra_afaceri

\* C5: no row of suggested_top belongs to a company whose region contains
\* 'constan' in any letter case; a missing region does not exclude a company.
C5_RegionExcluded ==
    LET Letters == << {"c", "C"}, {"o", "O"}, {"n", "N"}, {"s", "S"},
                      {"t", "T"}, {"a", "A"}, {"n", "N"} >>
        AnyCaseConstan(j) ==
            j # Null /\ \E i \in 1..(Len(j[1]) - 6) :
                            \A k \in 1..7 : j[1][i + k - 1] \in Letters[k]
    IN  /\ \A i \in 1..Len(suggested_top) :
             ~AnyCaseConstan(firms[suggested_top[i].cui].judet)
        /\ RebuildLimit(resp) # Null /\ Len(suggested_top) < RebuildLimit(resp)[1] =>
             \A c \in DOMAIN firms :
                 firms[c].judet = Null /\ ~HasActivityRow(c) =>
                     \E i \in 1..Len(suggested_top) : suggested_top[i].cui = c

\* a rebuild has run over a table with a mixed-case Constanta firm that has no
\* activity, and a firm without region made it into the list
C5_Witness ==
    /\ resp.op = "rebuild" /\ resp.status = 200 /\ resp.limit = DefaultLimit
    /\ firms[1].judet = Some(<<"J", "u", "d", " ", "C", "o", "n", "s", "t", "a", "n", "t", "a">>)
    /\ ~HasActivityRow(1)
    /\ \E i \in 1..Len(suggested_top) : firms[suggested_top[i].cui].judet = Null

\* C6: running rebuild_top20 twice in a row with the same limit and no change
\* to the company or activity tables leaves the same set of companies.
C6_RebuildTwiceSameSet ==
    [][ ( /\ RebuildLimit(resp) # Null
          /\ resp'.op \in {"rebuild", "mark_used"}
          /\ RebuildLimit(resp') = RebuildLimit(resp)
          /\ activities' = activities )
        => CuiSet(suggested_top') = CuiSet(suggested_top) ]_vars

C3_TakeAtMostNUnused ==
    /\ \A n \in 0..(Len(suggested_top) + 1) :
         LET items == take_next_suggestions(suggested_top, n)
         IN  /\ Len(items) <= n
             /\ \A i \in 1..Len(items) : \A j \in 1..Len(suggested_top) :
                    suggested_top[j].cui = items[i] => ~suggested_top[j].used
    /\ resp.op = "take" /\ resp.status = 200 =>
         /\ Len(resp.items) <= resp.n
         /\ \A i \in 1..Len(resp.items) : \A j \in 1..Len(resp.seen) :
                resp.seen[j].cui = resp.items[i] => ~resp.seen[j].used

\* a take that was cut at n, over a table with a used row and more than n
\* unused ones
C3_Witness ==
    /\ resp.op = "take" /\ resp.status = 200
    /\ Len(resp.items) = resp.n
    /\ \E j \in 1..Len(resp.seen) : resp.seen[j].used
    /\ Cardinality({j \in 1..Len(resp.seen) : ~resp.seen[j].used}) > resp.n

\* C7: a take_next_suggestions that runs while a rebuild is under way reads
\* the complete list of before or of after the rebuild, never the emptied or
\* partly reinserted table.
C7_TakeSeesCompleteList ==
    resp.op = "take" /\ resp.status = 200 =>
        /\ CuiSeq(resp.seen) = resp.complete
        /\ \A i \in 1..Len(resp.items) :
               \E j \in 1..Len(resp.complete) : resp.complete[j] = resp.items[i]

\* a take answered, with a non-empty list, while a rebuild that had already
\* chosen a different list was about to truncate the table
C7_Witness ==
    /\ resp.op = "take" /\ resp.status = 200 /\ Len(resp.items) > 0
    /\ \E p \in resp.during :
         /\ tx[p].pc = "truncate"
         /\ tx[p].rows # CuiSeq(resp.seen)

\* C9 as stated: every non-completed activity with scheduled date d is in
\* 'scheduled' iff d = day, in 'overdue' iff d < day, in 'nearby' iff
\* day < d <= day + 7, so none with d <= day + 7 is left out.
C9_AgendaPartition ==
    resp.op = "agenda" /\ resp.status = 200 =>
        \A i \in 1..Len(activities) :
            ~activities[i].completed /\ activities[i].scheduled_date # Null =>
                LET d == activities[i].scheduled_date[1]
                IN  /\ i \in resp.scheduled <=> d = resp.date
                    /\ i \in resp.overdue <=> d < resp.date
                    /\ i \in resp.nearby <=> (resp.date < d /\ d <= resp.date + 7)

\* C9 amended: the partition holds among the non-completed activities of the
\* requested company (all companies when no cui is given), and a list leaves
\* rows of its class out only beyond its LIMIT (500 most recently created,
\* 200 latest overdue, 500 earliest nearby).
C9_AgendaPartitionWithinFilterAndLimits ==
    resp.op = "agenda" /\ resp.status = 200 =>
        LET Open == {i \in 1..Len(activities) :
                       /\ ~activities[i].completed
                       /\ activities[i].scheduled_date # Null
                       /\ (resp.cui = Null \/ activities[i].cui = resp.cui[1])}
            d(i) == activities[i].scheduled_date[1]
            Due == {i \in Open : d(i) = resp.date}
            Late == {i \in Open : d(i) < resp.date}
            Soon == {i \in Open : resp.date < d(i) /\ d(i) <= resp.date + 7}
            Capped(L, K, cap) ==
                /\ L \subseteq K
                /\ Cardinality(L) = (IF Cardinality(K) <= cap THEN Cardinality(K) ELSE cap)
        IN  /\ Capped(resp.scheduled, Due, 500)
            /\ Capped(resp.overdue, Late, 200)
            /\ Capped(resp.nearby, Soon, 500)
            /\ \A a \in Due \ resp.scheduled, b \in resp.scheduled :
                   activities[a].created_at <= activities[b].created_at
            /\ \A a \in Late \ resp.overdue, b \in resp.overdue : d(a) <= d(b)
            /\ \A a \in Soon \ resp.nearby, b \in resp.nearby : d(a) >= d(b)
            /\ resp.scheduled \cap resp.overdue = {}
            /\ resp.scheduled \cap resp.nearby = {}
            /\ resp.overdue \cap resp.nearby = {}

\* an agenda whose overdue list was cut at its limit, with an activity due on
\* the day and one on the last day of the nearby window
C9_Witness ==
    /\ resp.op = "agenda" /\ resp.status = 200
    /\ resp.scheduled # {}
    /\ Cardinality(resp.overdue) = OverdueLimit
    /\ \E i \in resp.nearby : activities[i].scheduled_date[1] = resp.date + 7

\* C10: once mark_activity_completed(id) has succeeded the activity stays
\* completed and is in no list of any later api_agenda response.
C10_CompletedStaysOffAgenda ==
    \A id \in completedEver :
        /\ activities[id].completed
        /\ resp.op = "agenda" =>
               id \notin resp.scheduled \cup resp.overdue \cup resp.nearby

\* an agenda for the very day a completed activity was scheduled on, asked
\* without a company filter
C10_Witness ==
    /\ resp.op = "agenda" /\ resp.status = 200 /\ resp.cui = Null
    /\ \E id \in completedEver : activities[id].scheduled_date = Some(resp.date)

\* C11: api_agenda is a pure read: whatever its arguments, an invalid day
\* included, it leaves activities, suggested_top (rows, ranks, used flags) and
\* suggested_by_caen as they were.
C11_AgendaPureRead ==
    [][resp'.op = "agenda" =>
         UNCHANGED <<activities, suggested_top, suggested_by_caen>>]_vars

\* an agenda answered with a due activity and suggestions to show
C11_Witness ==
    /\ resp.op = "agenda" /\ resp.status = 200
    /\ resp.scheduled # {}
    /\ resp.suggested # <<>>
    /\ Len(suggested_top) > 0

\* C12: an existing activity is mutated only to set its completion flag: no
\* step removes an activity row or changes its company, note, score or
\* scheduled date, the flag is only ever set, and mark_activity_completed(id)
\* changes nothing but the completed field of the one row with that id.
C12_OnlyCompletionMutates ==
    [][/\ Len(activities') >= Len(activities)
       /\ \A i \in 1..Len(activities) :
             /\ [activities'[i] EXCEPT !.completed = FALSE] =
                   [activities[i] EXCEPT !.completed = FALSE]
             /\ activities[i].completed => activities'[i].completed
       /\ resp'.op = "complete" =>
             /\ Len(activities') = Len(activities)
             /\ \A i \in 1..Len(activities) :
                   activities[i].id # resp'.id => activities'[i] = activities[i]]_vars

\* an activity was completed while another one stays open
C12_Witness ==
    /\ resp.op = "complete" /\ resp.status = 200
    /\ \E i \in 1..Len(activities) :
          activities[i].id = resp.id /\ activities[i].completed
    /\ \E i \in 1..Len(activities) :
          activities[i].id # resp.id /\ ~activities[i].completed

C14_ExplicitDateOverrides ==
    [][CreatedStep /\ resp'.payload.scheduled_date # Null
         /\ fromisoformat(resp'.payload.scheduled_date[1]) # Null
         /\ (resp'.payload.score # Null \/ resp'.payload.programare_id # Null) =>
         StoredRow.scheduled_date = fromisoformat(resp'.payload.scheduled_date[1])]_vars

\* C15: two create_or_update_activity calls with the same company, note and
\* target day leave exactly one activity row for that key.
C15_OneRowPerKey ==
    \A i \in Created(activities) : \A j \in Created(activities) :
        /\ activities[i].cui = activities[j].cui
        /\ activities[i].comment = activities[j].comment
        /\ activities[i].scheduled_date = activities[j].scheduled_date
        => i = j

\* C16: create_or_update_activity with a missing or unknown score and a
\* missing or unknown reschedule option, and no explicit date, is not an
\* error: the call is answered 201, the row is stored and its scheduled date
\* is empty.
C16_UnknownOptionNoDate ==
    [][resp' # resp /\ resp'.op = "create" =>
         LET p == resp'.payload
         IN  /\ p.firm_id # EmptyCui /\ p.comment # ""
             /\ p.scheduled_date = Null /\ p.programare_days = Null
             /\ (p.score = Null \/ p.score[1] \notin 1..20)
             /\ (p.programare_id = Null \/ p.programare_id[1] \notin 1..20)
             => /\ resp'.status = 201
                /\ Len(activities') = Len(activities) + 1
                /\ StoredRow.cui = p.firm_id
                /\ StoredRow.scheduled_date = Null
                /\ resp'.scheduled_date = Null]_vars

\* an activity stored for a reprogram id that matches no option
C16_Witness ==
    /\ resp.op = "create" /\ resp.status = 201
    /\ resp.payload.programare_id = Some(Len(reprogram_options) + 1)
    /\ resp.payload.score = Some(Len(reprogram_options) + 1)
    /\ activities[resp.id].scheduled_date = Null
    /\ activities[resp.id].reprogram_id = resp.payload.programare_id

\* C17: every operation that takes a date rejects a missing or unparseable
\* date with a validation error that names the expected format, and changes
\* no state when it does so: api_agenda for its day, and
\* create_or_update_activity for an unparseable scheduled_date.
C17_BadDateRejected ==
    [][/\ resp' # resp /\ resp'.op = "agenda"
            /\ (resp'.day = Null \/ fromisoformat(resp'.day[1]) = Null) =>
            /\ resp'.status = 400
            /\ resp'.detail = "day must be ISO date YYYY-MM-DD"
       /\ resp' # resp /\ resp'.op = "create"
            /\ resp'.payload.firm_id # EmptyCui /\ resp'.payload.comment # ""
            /\ resp'.payload.scheduled_date # Null
            /\ fromisoformat(resp'.payload.scheduled_date[1]) = Null =>
            /\ resp'.status = 400
            /\ resp'.detail = "scheduled_date must be ISO date YYYY-MM-DD"
            /\ UNCHANGED <<activities, suggested_top, suggested_by_caen>>]_vars

\* C18: when the database cannot be reached, health, api_agenda,
\* api_suggested_next, create_or_update_activity and mark_activity_completed
\* report a service-unavailable condition (503), never a success and never
\* another error kind.
C18_UnavailableIs503 ==
    /\ ~resp.db
    /\ resp.tries > 0
    /\ resp.op \in {"health", "agenda", "take", "create", "complete"}
    => resp.status = 503

\* C19: startup_check_db terminates after at most 3 database attempts: it
\* returns after the first attempt that reaches the database, also when the
\* rebuilds of that attempt fail, and gives up after the third failure; no
\* request retries a failed database call.
C19_StartupBounded ==
    /\ [](/\ Len(boot.log) <= 3
          /\ \A i \in 1..(Len(boot.log) - 1) : boot.log[i] = "down"
          /\ boot.pc = "returned" => boot.log[Len(boot.log)] = "up"
          /\ boot.pc = "gave_up" => boot.log = <<"down", "down", "down">>
          /\ boot.pc = "attempt" =>
                Len(boot.log) < 3 /\ \A i \in 1..Len(boot.log) : boot.log[i] = "down"
          /\ resp.tries <= 1)
    /\ <>(boot.pc \in {"returned", "gave_up"})

\* startup returned on its third attempt although the rebuilds failed, and a
\* request has since failed on the database
C19_Witness ==
    /\ boot.pc = "returned"
    /\ boot.log = <<"down", "down", "up">>
    /\ suggested_top = <<>>
    /\ ~resp.db /\ resp.tries = 1

\* C20: mark_suggestions_used runs its used-flag update and the rebuild it
\* triggers inside one transaction, so no take_next_suggestions that runs
\* while it is under way reads the table with the companies flagged used and
\* the list not yet rebuilt.
C20_MarkUsedAtomic ==
    [][/\ resp' # resp /\ resp'.op = "take" /\ resp'.status = 200
       /\ \E p \in Procs : tx[p].pc # "idle" /\ tx[p].ret[1] = "mark_used"
       => \A i \in 1..Len(resp'.seen) :
            resp'.seen[i].used => resp'.seen[i].cui \notin UNION {tx[p].ret[2] : p \in
                {q \in Procs : tx[q].pc # "idle" /\ tx[q].ret[1] = "mark_used"}}]_vars

\* ------------------------------------------------ two concurrent writers
NextRace ==
    \/ \E p \in Procs, limit \in (1..MaxLimit) : StartAdminRebuild(p, limit)
    \/ \E pl \in {Payload(1, "note", Null, Null, Null, FALSE)} : StartCreate(1, pl)
    \/ \E p \in Procs : RebuildSelect(p)
    \/ \E p \in Procs : RebuildTruncate(p)
    \/ \E p \in Procs : RebuildInsert(p)
    \/ \E p \in Procs : RebuildCommit(p)
    \/ \E p \in Procs : RebuildCaen(p)
    \/ api_suggested_next(MaxN)

\* firms 1 and 2 tie on every sort key; with and without a further firm
SpecRace ==
    /\ InitOver({FirmTable([lic |-> Null, cifra |-> Null, judet |-> Null],
                           [lic |-> Null, cifra |-> Null, judet |-> Null], n) :
                    n \in {0, 1}})
    /\ [][NextRace]_vars

\* C21: when two rebuild_top20 calls run concurrently, the committed
\* suggested_top is at every moment, and so when both have returned, the
\* complete output of exactly one call: its rows are the rows of the call that
\* committed last, ranked 1..k, with no cui and no rank held by two rows.
C21_ConcurrentRebuildsOneOutput ==
    /\ CuiSeq(suggested_top) = lastFull
    /\ \A i \in 1..Len(suggested_top) : suggested_top[i].rank = i
    /\ \A i \in 1..Len(suggested_top), j \in 1..Len(suggested_top) :
         suggested_top[i].cui = suggested_top[j].cui => i = j

\* one call holds the TRUNCATE lock with all its rows inserted while the other,
\* which selected different rows, waits to truncate
C21_Witness ==
    /\ tx[1].pc = "insert" /\ tx[1].work # <<>> /\ Len(tx[1].work) = Len(tx[1].rows)
    /\ tx[2].pc = "truncate" /\ tx[2].rows # tx[1].rows /\ tx[2].rows # <<>>

\* C26: once create_or_update_activity(c) has returned 201, no
\* take_next_suggestions returns company c, whatever rebuild_top20 ran
\* concurrently with the create.
C26_NoTakeAfterCreateReturned ==
    resp.op = "take" /\ resp.status = 200 =>
        \A i \in 1..Len(resp.items) : resp.items[i] \notin
            {c \in contacted : \A p \in Procs : \/ tx[p].pc = "idle"
                                                \/ tx[p].ret[1] # "create"
                                                \/ tx[p].ret[2].cui # c}

\* worker p leaves the INSERT loop of rebuild_top20: its block exits
RebuildExits(p) == tx[p].pc = "insert" /\ tx'[p].pc # "insert"

\* no two rows share a cui and the ranks are exactly 1..k
TopShape(top) ==
    /\ \A i \in 1..Len(top), j \in 1..Len(top) : top[i].cui = top[j].cui => i = j
    /\ {top[i].rank : i \in 1..Len(top)} = 1..Len(top)

\* C29: every committed state of suggested_top has no two rows with one cui and
\* ranks exactly 1..k; the state a rebuild_top20(limit) commits has at most limit
\* rows; every other step, the UPDATEs of mark_suggestions_used and
\* create_or_update_activity among them, leaves the rows, their cui and their
\* rank as they were and changes at most used flags.
C29_CommittedShape ==
    [][/\ TopShape(suggested_top) /\ TopShape(suggested_top')
       /\ \A p \in Procs : RebuildExits(p) => Len(suggested_top') <= tx[p].limit
       /\ (\A p \in Procs : ~RebuildExits(p)) =>
             /\ Len(suggested_top') = Len(suggested_top)
             /\ \A i \in 1..Len(suggested_top) :
                  /\ suggested_top'[i].cui = suggested_top[i].cui
                  /\ suggested_top'[i].rank = suggested_top[i].rank]_vars

\* an admin rebuild with limit 1 left one row although more firms qualify, and
\* mark_suggestions_used has flagged that row and not yet rebuilt
C29_Witness ==
    /\ resp.op = "rebuild" /\ resp.status = 200 /\ resp.limit = 1
    /\ Len(suggested_top) = 1 /\ suggested_top[1].used
    /\ Cardinality(Eligible(firms, activities)) > 1
    /\ tx[1].pc = "select" /\ tx[1].ret[1] = "mark_used"

\* ------------------------------------------------ app password middleware
\* os.environ.get("APP_PASSWORD", "5864")
APP_PASSWORD == "5864"

write_methods == {"POST", "PUT", "PATCH", "DELETE"}

\* path.startswith(prefix + "/"), a path being the sequence of its segments
startswith(path, prefix) ==
    Len(path) > Len(prefix) /\ SubSeq(path, 1, Len(prefix)) = prefix

\* `protected` that forgets the /admin/ prefix
protectedApiOnly(method, path) ==
    startswith(path, <<"api">>) /\ method \in write_methods

\* the middleware's `protected`
protected(method, path) ==
    /\ startswith(path, <<"api">>) \/ startswith(path, <<"admin">>)
    /\ method \in write_methods

\* the password the middleware finds: the x-app-password header, or when that
\* is missing or empty the "password" member of a JSON object body
pw(req) ==
    IF req.header # Null /\ req.header # Some("") THEN req.header
    ELSE IF req.body.kind = "object" THEN req.body.password
    ELSE Null

\* method and path of the routes modelled
Routes ==
    {<<"POST", <<"api", "activities">>>>, <<"POST", <<"api", "suggested_mark_used">>>>,
     <<"POST", <<"admin", "rebuild_top20">>>>, <<"GET", <<"api", "suggested_next">>>>,
     <<"GET", <<"health">>>>}

\* what the routes under the middleware answer
call_next(req) ==
    IF req.method = "POST" /\ req.path = <<"api", "activities">>
    THEN IF req.body.kind = "object"
         THEN create_or_update_activity(
                  Payload(req.body.firm_id, "note", Null, Null, Null, FALSE))
         ELSE /\ resp' = Refused([op |-> "router", status |-> 422])
              /\ UNCHANGED <<firms, activity_types, activities, suggested_top, suggested_by_caen,
                             today, contacted, completedEver, lastFull, tx, db_up, boot>>
    ELSE IF req.method = "POST" /\ req.path = <<"api", "suggested_mark_used">>
    THEN IF req.body.kind = "list"
         THEN mark_suggestions_used(req.body.cuis)
         ELSE /\ resp' = Refused([op |-> "router", status |-> 422])
              /\ UNCHANGED <<firms, activity_types, activities, suggested_top, suggested_by_caen,
                             today, contacted, completedEver, lastFull, tx, db_up, boot>>
    ELSE IF req.method = "POST" /\ req.path = <<"admin", "rebuild_top20">>
    THEN admin_rebuild(req.limit)
    ELSE IF req.method = "GET" /\ req.path = <<"api", "suggested_next">>
    THEN api_suggested_next(MaxN)
    ELSE IF req.method = "GET" /\ req.path = <<"health">>
    THEN health
    ELSE /\ resp' = Refused([op |-> "router",
                             status |-> IF \E r \in Routes : r[2] = req.path
                                        THEN 405 ELSE 404])
         /\ UNCHANGED <<firms, activity_types, activities, suggested_top, suggested_by_caen,
                        today, contacted, completedEver, lastFull, tx, db_up, boot>>

\* @app.middleware("http")
require_app_password_middleware(req) ==
    IF ~protected(req.method, req.path)
    THEN call_next(req)
    ELSE IF pw(req) # Some(APP_PASSWORD)
    THEN /\ resp' = Refused([op |-> "auth", status |-> 401, method |-> req.method,
                             path |-> req.path, header |-> req.header,
                             detail |-> "Missing or invalid app password"])
         /\ UNCHANGED <<firms, activity_types, activities, suggested_top, suggested_by_caen,
                        today, contacted, completedEver, lastFull, tx, db_up, boot>>
    ELSE call_next(req)

\* every route with every password and body; every other method and path
\* with and without the password
AuthRequests ==
    {[method |-> r[1], path |-> r[2], header |-> h, body |-> b, limit |-> 1] :
        r \in Routes, h \in {Null, Some(""), Some(APP_PASSWORD)},
        b \in {[kind |-> "none"], [kind |-> "list", cuis |-> {1}]}
              \cup {[kind |-> "object", password |-> w, firm_id |-> c] :
                        w \in {Null, Some("0000"), Some(APP_PASSWORD)},
                        c \in VarCuis}}
    \cup {[method |-> r[1], path |-> r[2], header |-> h, body |-> [kind |-> "none"],
           limit |-> 1] :
            r \in ((write_methods \cup {"GET"})
                   \X {<<"api", "activities">>, <<"api", "suggested_mark_used">>,
                       <<"admin", "rebuild_top20">>, <<"api", "suggested_next">>,
                       <<"health">>, <<"api">>}) \ Routes,
            h \in {Null, Some(APP_PASSWORD)}}

AuthFirms ==
    {FirmTable([lic |-> Null, cifra |-> Some(1), judet |-> Null],
               [lic |-> Null, cifra |-> Null, judet |-> Null], 1)}

NextAuth == \E req \in AuthRequests : require_app_password_middleware(req)

SpecAuth == InitOver(AuthFirms) /\ [][NextAuth]_vars

\* a write under /api/ or /admin/
WriteUnderApiOrAdmin(req) ==
    /\ req.method \in {"POST", "PUT", "PATCH", "DELETE"}
    /\ Len(req.path) > 1 /\ req.path[1] \in {"api", "admin"}

\* C22: a POST, PUT, PATCH or DELETE under /api/ or /admin/ that does not carry
\* the app password, neither in the x-app-password header nor as the
\* "password" of a JSON object body, is answered 401 and no handler runs: no table changes.  A
\* request with another method or path is passed on without a password check:
\* its answer is never the middleware's 401, whatever password it carries.
C22_PasswordGate ==
    [][\A req \in AuthRequests :
          /\ (/\ WriteUnderApiOrAdmin(req)
              /\ req.header # Some(APP_PASSWORD)
              /\ req.body.kind = "object" => req.body.password # Some(APP_PASSWORD)
              /\ require_app_password_middleware(req)) =>
                /\ resp'.op = "auth" /\ resp'.status = 401
                /\ UNCHANGED <<firms, activity_types, activities, suggested_top, suggested_by_caen,
                               contacted, completedEver, lastFull>>
          /\ (~WriteUnderApiOrAdmin(req) /\ require_app_password_middleware(req)) =>
                resp'.op # "auth"]_vars

\* after an activity was stored with the password, an admin rebuild sent
\* without a password header was refused
C22_Witness ==
    /\ resp.op = "auth" /\ resp.status = 401
    /\ resp.method = "POST" /\ resp.path = <<"admin", "rebuild_top20">>
    /\ resp.header = Null
    /\ activities # <<>>

\* ------------------------------------- more CAEN candidates than the limit
NextCaen ==
    \/ \E c \in {1, FillCui(1), FillCui(2)} :
         create_or_update_activity(Payload(c, "note", Null, Null, Null, FALSE))
    \/ \E cuis \in SUBSET {FillCui(1)} : mark_suggestions_used(cuis)
    \/ \E id \in CompleteIds : mark_activity_completed(id)
    \/ health

\* firm 1, of the highest revenue, in a target county written with capitals
\* and spaces, in the excluded region or without county; 2 * 20 + 1 further
\* firms, every second one with a relevant CAEN code
SpecCaen ==
    /\ InitOver({FirmTable(r1, [lic |-> Null, cifra |-> Null, judet |-> Null],
                           2 * DefaultLimit + 1) :
                    r1 \in [lic : {Null}, cifra : {Some(3 * DefaultLimit)},
                            judet : {Null, ConstantaUpper,
                                     Some(<<" ", "G", "A", "L", "A", "T", "I", " ">>)}]})
    /\ [][NextCaen]_vars

\* the county column names county k, whatever its case and outer blanks
InCounty(judet, k) ==
    /\ judet # Null
    /\ LET letters == SelectSeq(judet[1], LAMBDA ch : ch # " ")
       IN  /\ Len(letters) = Len(k)
           /\ \A i \in 1..Len(k) : LowerChar(letters[i]) = LowerChar(k[i])

\* at most limit rows, no cui twice, every row a company without activity, in
\* one of the six counties the docstring of rebuild_top20_caen names, with a
\* relevant CAEN code
CaenShape(table, limit) ==
    /\ Len(table) <= limit
    /\ \A i \in 1..Len(table), j \in 1..Len(table) : table[i].cui = table[j].cui => i = j
    /\ \A i \in 1..Len(table) :
         /\ table[i].cui \in DOMAIN firms
         /\ \A a \in 1..Len(activities) : activities[a].cui # table[i].cui
         /\ \E k \in { <<"G", "a", "l", "a", "t", "i">>, <<"B", "r", "a", "i", "l", "a">>,
                       <<"T", "u", "l", "c", "e", "a">>, <<"V", "a", "s", "l", "u", "i">>,
                       <<"V", "r", "a", "n", "c", "e", "a">>,
                       <<"I", "a", "l", "o", "m", "i", "t", "a">> } :
              InCounty(firms[table[i].cui].judet, k)
         /\ firms[table[i].cui].caen = "4120"

C24_FlagsClearedCompanyBack ==
    [][RebuildLimit(resp') # Null =>
          /\ \A i \in 1..Len(suggested_top') : ~suggested_top'[i].used
          /\ resp'.op = "mark_used" =>
               \A c \in resp'.cuis :
                  (c \in CuiSet(suggested_top) /\ NoActivity(activities', c)) =>
                      \E i \in 1..Len(suggested_top') :
                         suggested_top'[i].cui = c /\ ~suggested_top'[i].used]_vars

\* ------------------------- the database is lost between two transactions
\* a request whole when it is rejected or finds the database down, statement
\* by statement when it gets to the database
NextLost ==
    \/ DbFails
    \/ DbRecovers
    \/ \E c \in {1, EmptyCui} :
         /\ tx = TxIdle
         /\ c = EmptyCui \/ ~db_up
         /\ create_or_update_activity(Payload(c, "note", Null, Null, Null, FALSE))
    \/ \E c \in {1, EmptyCui} :
         StartCreate(1, Payload(c, "note", Null, Null, Null, FALSE))
    \/ \E cuis \in {{1}} : StartMarkUsed(1, cuis)
    \/ \E limit \in (0..MaxLimit) : StartAdminRebuild(1, limit)
    \/ RebuildSelect(1)
    \/ RebuildTruncate(1)
    \/ RebuildInsert(1)
    \/ RebuildCommit(1)
    \/ RebuildAborts(1)
    \/ RebuildCaen(1)
    \/ api_suggested_next(MaxN)

SpecLost == InitOver(AuthFirms) /\ [][NextLost]_vars

\* C25: when create_or_update_activity answers 400 or 500 no activity row has
\* been added and suggested_top is as the call found it; the row of a call is
\* there only when its answer is 201.
C25_ErrorLeavesNoRow ==
    [][/\ \A p \in Procs :
            (tx[p].pc # "idle" /\ tx'[p].pc = "idle" /\ tx[p].ret[1] = "create") =>
               IF resp'.status = 201
               THEN \E i \in 1..Len(activities') : activities'[i] = tx[p].ret[2]
               ELSE /\ \A i \in 1..Len(activities') : activities'[i] # tx[p].ret[2]
                    /\ suggested_top' = tx[p].ret[4]
       /\ (tx = TxIdle /\ tx' = TxIdle /\ resp' # resp /\ resp'.op = "create") =>
            /\ resp'.status \in {400, 500}
            /\ activities' = activities
            /\ suggested_top' = suggested_top]_vars

\* C27: mark_activity_completed(id) for an id that matches no activity answers
\* 404 'Activity not found' and leaves every activity as it was; for an
\* existing id it answers {updated: 1}.
C27_MissingIdNotFound ==
    [][(resp'.op = "complete" /\ resp'.db) =>
          IF \E i \in 1..Len(activities) : activities[i].id = resp'.id
          THEN resp'.status = 200 /\ resp'.updated = 1
          ELSE /\ resp'.status = 404 /\ resp'.detail = "Activity not found"
               /\ activities' = activities]_vars

\* ------------------------------------------ CSV import (src/activities.py)
MaxFileRows == 2

\* Activity(cui=..., activity_type_id=..., comment=..., score=...) as the
\* activities table keeps it
ImportedActivity(n, cui, row) ==
    [id |-> n, cui |-> cui, comment |-> row.comment, score |-> Null,
     reprogram_id |-> Null, reprogram_days |-> Null, scheduled_date |-> Null,
     completed |-> FALSE, created_at |-> n, activity_type |-> row.type]

\* get_or_create_activity_type on the session s of an import: a name that is
\* not in activity_types is added and db.commit() is called, which also
\* commits the activities db.add() has put in the session so far
get_or_create_activity_type(s, name) ==
    IF name = Null \/ name[1] \in s.types THEN s
    ELSE [s EXCEPT !.types = @ \cup {name[1]},
                   !.committed = @ \o s.pending,
                   !.pending = <<>>]

\* the loop of import_activities_csv over the rows of the file
RECURSIVE ImportRows(_, _, _)
ImportRows(s, cui, rows) ==
    IF rows = <<>> THEN s
    ELSE LET t == get_or_create_activity_type(s, rows[1].type)
             a == ImportedActivity(t.next, cui, rows[1])
         IN  ImportRows([t EXCEPT !.pending = Append(@, a), !.next = @ + 1,
                                  !.created = @ + 1],
                        cui, Tail(rows))

\* POST /activitati/firma/{cui}/import_csv ; commit_ok: the final db.commit()
\* does not raise
import_activities_csv(cui, file, commit_ok) ==
    /\ Len(activities) + Len(file) <= MaxActivities + MaxFileRows
    /\ LET s == ImportRows([types |-> activity_types, committed |-> <<>>,
                            pending |-> <<>>, next |-> Len(activities) + 1,
                            created |-> 0], cui, file)
       IN  /\ activity_types' = s.types
           /\ IF commit_ok
              THEN /\ activities' = activities \o s.committed \o s.pending
                   /\ resp' = Served([op |-> "import", status |-> 200,
                                      created |-> s.created, file |-> file])
              ELSE /\ activities' = activities \o s.committed
                   /\ resp' = Served([op |-> "import", status |-> 500,
                                      created |-> 0, file |-> file])
    /\ UNCHANGED <<firms, suggested_top, suggested_by_caen, today, contacted,
                   completedEver, lastFull, tx, db_up, boot>>

RECURSIVE SeqsUpTo(_, _)
SeqsUpTo(S, n) ==
    IF n = 0 THEN {<<>>}
    ELSE LET shorter == SeqsUpTo(S, n - 1)
         IN  shorter \cup {Append(q, x) : q \in shorter, x \in S}

NextImport ==
    \/ \E file \in SeqsUpTo([type : {Null, Some("contact"), Some("vizita")},
                               comment : {"note"}], MaxFileRows),
          commit_ok \in BOOLEAN :
         import_activities_csv(1, file, commit_ok)

SpecImport == InitOver(AuthFirms) /\ [][NextImport]_vars

\* C28: import_activities_csv is all-or-nothing: when its final commit fails
\* no activity of the file is persisted, rows added before a new activity type
\* was created included; when it succeeds exactly 'created' activities of the
\* file are persisted.
C28_ImportAllOrNothing ==
    [][resp'.op = "import" =>
          IF resp'.status = 500
          THEN activities' = activities
          ELSE Len(activities') = Len(activities) + resp'.created]_vars

\* C30: the stored scheduled date is the current UTC date + N days, N being
\* the programare_days override when one is given and otherwise the days of
\* the option programare_id selects; when that option has no days or the id
\* matches no option, and no scheduled_date is supplied, the stored date is
\* empty and reprogram_id is stored as sent.
C30_OffsetFromOverrideOrOption ==
    [][CreatedStep =>
          LET p == resp'.payload
              row == StoredRow
              known == /\ p.programare_id # Null
                       /\ p.programare_id[1] \in DOMAIN reprogram_options
                       /\ reprogram_options[p.programare_id[1]] # Null
          IN  /\ p.programare_days # Null =>
                   row.scheduled_date = Some(today + p.programare_days[1])
              /\ (p.programare_days = Null /\ known) =>
                   row.scheduled_date =
                       Some(today + reprogram_options[p.programare_id[1]][1])
              /\ (/\ p.programare_days = Null /\ p.programare_id # Null /\ ~known
                  /\ p.scheduled_date = Null) =>
                   /\ row.scheduled_date = Null
                   /\ row.reprogram_id = p.programare_id]_vars

====
